---- MODULE Spec2Model ----
(***************************************************************************)
(* Verification model of friend_circle_lite/get_info.py: link sanitizer,   *)
(* feed discovery, site processor, aggregator, merge/dedup and the         *)
(* working-set limiter.  Strings that the code takes apart character by    *)
(* character (links, URLs) are sequences of one-character strings.         *)
(***************************************************************************)
EXTENDS Integers, Sequences, FiniteSets, TLC

VARIABLES
    san_pc, link, blog_url, san_out,          \* replace_non_domain call
    net_resp, net_page, net_doc,              \* what the network answers
    fd_pc, fd_out,                            \* check_feed call
    sp_pc, friend, specific_RSS, sp_out,      \* process_friend call
    ag_pc, friends_data, futures, drained,    \* fetch_and_process_data: position, roster, tasks, drain order
    total_friends, active_friends, error_friends, total_articles,
    article_data, error_friends_info, ag_out,
    st_pc, data, before, ops, src         \* stages applied to a result; ops: the last two, newest first

sanVars == <<san_pc, link, blog_url, san_out>>
netVars == <<net_resp, net_page, net_doc>>
fdVars == <<fd_pc, fd_out>>
spVars == <<sp_pc, friend, specific_RSS, sp_out>>
counters == <<total_friends, active_friends, error_friends, total_articles, article_data, error_friends_info>>
agVars == <<ag_pc, friends_data, futures, drained, counters, ag_out>>
stVars == <<st_pc, data, before, ops, src>>
vars == <<sanVars, netVars, fdVars, spVars, agVars, stVars>>

(***************************************************************************)
(* Python str primitives used by the link code                             *)
(***************************************************************************)
Min(S) == CHOOSE x \in S : \A y \in S : x <= y

\* str.startswith
StartsWith(s, p) == Len(s) >= Len(p) /\ SubSeq(s, 1, Len(p)) = p

\* str.endswith
EndsWith(s, p) == Len(s) >= Len(p) /\ SubSeq(s, Len(s) - Len(p) + 1, Len(s)) = p

\* str.find: 0-based index of the first occurrence, -1 when absent
FirstOf(occ) == IF occ = {} THEN -1 ELSE Min(occ) - 1
Find(s, p) == FirstOf({i \in 1..(Len(s) - Len(p) + 1) : SubSeq(s, i, i + Len(p) - 1) = p})

\* the `in` operator on strings
Contains(s, p) == Find(s, p) # -1

\* s[k:] with a 0-based k
From(s, k) == SubSeq(s, k + 1, Len(s))

\* str.split(sep) for a non-empty separator: the sequence of pieces
RECURSIVE SplitAt(_, _, _)
Split(s, sep) == SplitAt(s, sep, Find(s, sep))
SplitAt(s, sep, k) ==
    IF k = -1 THEN <<s>>
    ELSE <<SubSeq(s, 1, k)>> \o Split(From(s, k + Len(sep)), sep)

\* str.replace(old, new): every non-overlapping occurrence, left to right;
\* an empty `old` matches before every character and at the end
RECURSIVE Interleave(_, _)
Interleave(s, new) ==
    IF s = <<>> THEN new ELSE new \o <<Head(s)>> \o Interleave(Tail(s), new)

RECURSIVE ReplaceAt(_, _, _, _)
Replace(s, old, new) ==
    IF old = <<>> THEN Interleave(s, new) ELSE ReplaceAt(s, old, new, Find(s, old))
ReplaceAt(s, old, new, k) ==
    IF k = -1 THEN s
    ELSE SubSeq(s, 1, k) \o new \o Replace(From(s, k + Len(old)), old, new)

\* str.rstrip('/')
RECURSIVE RStripSlash(_)
RStripSlash(s) ==
    IF s # <<>> /\ s[Len(s)] = "/" THEN RStripSlash(SubSeq(s, 1, Len(s) - 1)) ELSE s

\* str.lstrip('/')
RECURSIVE LStripSlash(_)
LStripSlash(s) ==
    IF s # <<>> /\ Head(s) = "/" THEN LStripSlash(Tail(s)) ELSE s

Digits == {"0", "1", "2", "3", "4", "5", "6", "7", "8", "9"}

SchemeSep == <<":", "/", "/">>
HttpPrefix == <<"h", "t", "t", "p">> \o SchemeSep
HttpsPrefix == <<"h", "t", "t", "p", "s">> \o SchemeSep
Localhost == <<"l", "o", "c", "a", "l", "h", "o", "s", "t">>
Loopback4 == <<"1", "2", "7", ".", "0", ".", "0", ".", "1">>
Loopback6 == <<":", ":", "1">>

\* re.match(r'^(\d{1,3}\.){3}\d{1,3}$', host)
FourOctets(parts) ==
    /\ Len(parts) = 4
    /\ \A i \in 1..4 : /\ Len(parts[i]) \in 1..3
                       /\ \A j \in 1..Len(parts[i]) : parts[i][j] \in Digits
IPv4Match(host) == FourOctets(Split(host, <<".">>))

(***************************************************************************)
(* Link Sanitizer                                                          *)
(***************************************************************************)
\* url[protocol_end + 3:] if protocol_end != -1 else url
AfterScheme(url, protocol_end) == IF protocol_end # -1 THEN From(url, protocol_end + 3) ELSE url

\* the host part the code cuts out of a URL: after '://' (when present), up to the first '/'
DomainOf(url) == Split(AfterScheme(url, Find(url, SchemeSep)), <<"/">>)[1]

HostOf(rest) == IF Contains(rest, <<"/">>) THEN Split(rest, <<"/">>)[1] ELSE rest

BadHost(host) ==
    \/ host \in {Localhost, Loopback6, Loopback4}
    \/ IPv4Match(host)
    \/ (StartsWith(host, <<"[">>) /\ EndsWith(host, <<"]">>))
    \/ host = <<>>

is_bad_link(l) ==
    IF ~Contains(l, SchemeSep) THEN TRUE
    ELSE BadHost(HostOf(From(l, Find(l, SchemeSep) + 3)))

\* result of a call: exc = "none" and the returned value, or the exception raised
Returned(v) == [exc |-> "none", ret |-> v]
Raised(e) == [exc |-> e, ret |-> <<>>]

\* 'https://' + link.split('://')[1]
ForceHttps(pieces) ==
    IF Len(pieces) < 2 THEN Raised("IndexError") ELSE Returned(HttpsPrefix \o pieces[2])

\* the two closing steps: http -> https, then the repair of a bad link
UpgradeHttp(l) == IF StartsWith(l, HttpPrefix) THEN HttpsPrefix \o From(l, 7) ELSE l
RepairBad(l, link_domain, blog_domain) ==
    IF is_bad_link(l)
    THEN ForceHttps(Split(Replace(l, link_domain, blog_domain), SchemeSep))
    ELSE Returned(l)

\* the link with 'http://' put in front when it has no '://'
WithScheme(l) == IF ~Contains(l, SchemeSep) THEN HttpPrefix \o l ELSE l
RepairLink(l, blog_domain) == RepairBad(UpgradeHttp(l), DomainOf(l), blog_domain)

replace_non_domain(l, b) ==
    IF l = <<>> \/ b = <<>> THEN Returned(l)
    ELSE RepairLink(WithScheme(l), DomainOf(b))

\* ---- inputs of the sanitizer ----
IpHost == <<"1", ".", "2", ".", "3", ".", "4">>
BracketHost == <<"[">> \o Loopback6 \o <<"]">>
DomainHost == <<"a", ".", "c", "n">>
PortPart == <<":", "8", "0">>
PathPart == <<"/", "p">>
BlogHost == <<"b", ".", "i", "o">>

LinkSchemes == {<<>>, HttpPrefix, HttpsPrefix}
LinkHosts == {<<>>, IpHost, Loopback4, Localhost, Loopback6, BracketHost, DomainHost}
LinkPorts == {<<>>, PortPart}
LinkPaths == {<<>>, PathPart}
Links == {s \o h \o p \o q : s \in LinkSchemes, h \in LinkHosts, p \in LinkPorts, q \in LinkPaths}
BlogUrls == {HttpsPrefix \o BlogHost, HttpPrefix \o BlogHost \o <<"/">>, BlogHost}


(***************************************************************************)
(* Feed Discoverer                                                         *)
(***************************************************************************)
possible_feeds == <<
    [feed_type |-> "atom",  path |-> <<"/", "a", "t", "o", "m", ".", "x", "m", "l">>],
    [feed_type |-> "rss",   path |-> <<"/", "r", "s", "s", ".", "x", "m", "l">>],
    [feed_type |-> "rss2",  path |-> <<"/", "r", "s", "s", "2", ".", "x", "m", "l">>],
    [feed_type |-> "feed",  path |-> <<"/", "f", "e", "e", "d">>],
    [feed_type |-> "feed2", path |-> <<"/", "f", "e", "e", "d", ".", "x", "m", "l">>],
    [feed_type |-> "feed3", path |-> <<"/", "f", "e", "e", "d", "/">>],
    [feed_type |-> "index", path |-> <<"/", "i", "n", "d", "e", "x", ".", "x", "m", "l">>] >>

\* what session.get gives for one URL: a 200 response whose text holds '<rss' or
\* '<feed', a 200 response without, another status code, or requests.RequestException
Responses == {"feed200", "plain200", "non200", "neterr"}

\* variant: a RequestException on a probe ends the loop instead of continuing
RECURSIVE ProbeFrom_NetErrEnds(_, _, _, _)
ProbeFrom_NetErrEnds(i, b, resp, reqs) ==
    IF i > Len(possible_feeds) THEN [found |-> FALSE, feed_type |-> "none", feed_url |-> b, reqs |-> reqs]
    ELSE IF resp[i] = "feed200"
    THEN [found |-> TRUE, feed_type |-> possible_feeds[i].feed_type,
          feed_url |-> RStripSlash(b) \o possible_feeds[i].path,
          reqs |-> Append(reqs, RStripSlash(b) \o possible_feeds[i].path)]
    ELSE IF resp[i] = "neterr"
    THEN [found |-> FALSE, feed_type |-> "none", feed_url |-> b,
          reqs |-> Append(reqs, RStripSlash(b) \o possible_feeds[i].path)]
    ELSE ProbeFrom_NetErrEnds(i + 1, b, resp, Append(reqs, RStripSlash(b) \o possible_feeds[i].path))

\* the for loop over possible_feeds from index i on; reqs is the list of URLs requested
RECURSIVE ProbeFrom(_, _, _, _)
ProbeUrl(i, b, resp, reqs, feed_url) ==
    IF resp[i] = "feed200"
    THEN [found |-> TRUE, feed_type |-> possible_feeds[i].feed_type,
          feed_url |-> feed_url, reqs |-> Append(reqs, feed_url)]
    ELSE ProbeFrom(i + 1, b, resp, Append(reqs, feed_url))
ProbeFrom(i, b, resp, reqs) ==
    IF i > Len(possible_feeds) THEN [found |-> FALSE, feed_type |-> "none", feed_url |-> b, reqs |-> reqs]
    ELSE ProbeUrl(i, b, resp, reqs, RStripSlash(b) \o possible_feeds[i].path)

RssWord == <<"r", "s", "s">>
AtomWord == <<"a", "t", "o", "m">>
HttpWord == <<"h", "t", "t", "p">>

\* the loop over soup.find_all('link', rel='alternate'): first link whose type holds rss or atom
RECURSIVE FirstFeedLink(_, _)
FirstFeedLink(links, b) ==
    IF links = <<>> THEN [found |-> FALSE, href |-> <<>>]
    ELSE IF Contains(Head(links).type, RssWord) \/ Contains(Head(links).type, AtomWord)
    THEN [found |-> TRUE,
          href |-> IF ~StartsWith(Head(links).href, HttpWord)
                   THEN RStripSlash(b) \o <<"/">> \o LStripSlash(Head(links).href)
                   ELSE Head(links).href]
    ELSE FirstFeedLink(Tail(links), b)

\* the autodiscovery block and the final return
Autodiscovered(b, reqs, auto) ==
    IF auto.found THEN [feed_type |-> "auto", feed_url |-> auto.href, reqs |-> reqs]
    ELSE [feed_type |-> "none", feed_url |-> b, reqs |-> reqs]
AfterProbes(b, page, probe) ==
    IF probe.found THEN [feed_type |-> probe.feed_type, feed_url |-> probe.feed_url, reqs |-> probe.reqs]
    ELSE Autodiscovered(b, Append(probe.reqs, b),
                        IF page.get = "ok" /\ page.status_code = 200
                        THEN FirstFeedLink(page.links, b)
                        ELSE [found |-> FALSE, href |-> <<>>])

check_feed(b, resp, page) == AfterProbes(b, page, ProbeFrom(1, b, resp, <<>>))

(***************************************************************************)
(* Time Normalizer, on the timestamp strings the modelled feeds carry      *)
(***************************************************************************)
\* parser.parse / strptime, tzinfo defaulted to UTC, astimezone(UTC+8), strftime
format_published_time(time_str) ==
    CASE time_str = "2024-03-11T14:08:32Z" -> "2024-03-11 22:08"
      [] time_str = "Mon, 10 Mar 2025 20:00:00 +0000" -> "2025-03-11 04:00"
      [] time_str = "2023-05-01" -> "2023-05-01 08:00"
      [] OTHER -> ""

\* the strings datetime.strptime(x, '%Y-%m-%d %H:%M') accepts, among those modelled
Parseable == {"2023-05-01 08:00", "2024-01-01 00:00", "2024-03-11 22:08", "2025-03-11 04:00"}

\* datetime.strptime(x, '%Y-%m-%d %H:%M') as the rank of the instant (only the order is used)
strptime(x) ==
    CASE x = "2023-05-01 08:00" -> 1
      [] x = "2024-01-01 00:00" -> 2
      [] x = "2024-03-11 22:08" -> 3
      [] x = "2025-03-11 04:00" -> 4

\* datetime.min
DatetimeMin == 0

Max(S) == CHOOSE x \in S : \A y \in S : x >= y

\* sorted(s, key=..., reverse=True), keys[i] being the key of s[i]: descending by
\* key, equal keys keep their order
RECURSIVE Buckets(_, _, _)
Buckets(s, keys, ks) ==
    IF ks = {} THEN <<>>
    ELSE SelectSeq([i \in 1..Len(s) |-> i], LAMBDA i : keys[i] = Max(ks))
         \o Buckets(s, keys, ks \ {Max(ks)})
Picked(s, order) == [k \in 1..Len(s) |-> s[order[k]]]
SortedDesc(s, keys) == Picked(s, Buckets(s, keys, {keys[i] : i \in 1..Len(s)}))

(***************************************************************************)
(* Feed Parser                                                             *)
(***************************************************************************)
EmptyFeedInfo == [website_name |-> "", author |-> "", link |-> "", articles |-> <<>>]

\* one iteration of the loop over feed.entries; e.has is the set of keys the entry holds
ArticleOf(e, author, published, fixed) ==
    IF fixed.exc # "none" THEN Raised(fixed.exc)
    ELSE Returned([title |-> IF "title" \in e.has THEN e.title ELSE "",
                   author |-> author,
                   link |-> fixed.ret,
                   published |-> published,
                   summary |-> "",
                   content |-> ""])
EntryArticle(e, author, b) ==
    IF "published" \notin e.has /\ "title" \notin e.has
    THEN Raised("AttributeError")
    ELSE ArticleOf(e, author,
                   IF "published" \in e.has THEN format_published_time(e.published)
                   ELSE IF "updated" \in e.has THEN format_published_time(e.updated)
                   ELSE "",
                   replace_non_domain(IF "link" \in e.has THEN e.link ELSE <<>>, b))

PublishedKey(a) == IF a.published # "" THEN strptime(a.published) ELSE DatetimeMin

\* the sorted(...) and the truncation to count
NewestFirst(arts, count) ==
    IF count < Len(arts) THEN SubSeq(arts, 1, count) ELSE arts
Sorted(made) == SortedDesc(made, [i \in 1..Len(made) |-> PublishedKey(made[i])])

\* the result once every entry went through the loop body
Built(doc, count, built) ==
    IF \E i \in 1..Len(built) : built[i].exc # "none"
    THEN Raised(built[Min({i \in 1..Len(built) : built[i].exc # "none"})].exc)
    ELSE Returned([website_name |-> doc.title, author |-> doc.author, link |-> doc.link,
                   articles |-> NewestFirst(Sorted([i \in 1..Len(built) |-> built[i].ret]), count)])

\* the body of the try block
ParseBody(doc, count, b) ==
    IF doc.get # "ok" THEN Raised("RequestException")
    ELSE IF doc.bozo THEN Returned(EmptyFeedInfo)
    ELSE Built(doc, count, [i \in 1..Len(doc.entries) |-> EntryArticle(doc.entries[i], doc.author, b)])

\* except Exception: the empty record
Caught(body) == IF body.exc # "none" THEN EmptyFeedInfo ELSE body.ret
parse_feed(doc, count, b) == Caught(ParseBody(doc, count, b))

(***************************************************************************)
(* Site Processor                                                          *)
(***************************************************************************)
\* next((rss['url'] for rss in specific_RSS if rss['name'] == name), None); <<>> for None
RECURSIVE FirstOverride(_, _)
FirstOverride(rss_list, name) ==
    IF rss_list = <<>> THEN <<>>
    ELSE IF Head(rss_list).name = name THEN Head(rss_list).url
    ELSE FirstOverride(Tail(rss_list), name)

\* the articles built from feed_info['articles']
ArticlesOf(arts, name, avatar) ==
    [i \in 1..Len(arts) |-> [title |-> arts[i].title,
                             created |-> arts[i].published,
                             link |-> arts[i].link,
                             author |-> name,
                             avatar |-> avatar]]

\* the branch on feed_type
Processed(name, b, avatar, feed_type, doc, count) ==
    IF feed_type # "none"
    THEN [name |-> name, status |-> "active",
          articles |-> ArticlesOf(parse_feed(doc, count, b).articles, name, avatar)]
    ELSE [name |-> name, status |-> "error", articles |-> <<>>]

Resolve(rss_feed, b, resp, page) ==
    IF rss_feed # <<>> THEN "specific" ELSE check_feed(b, resp, page).feed_type

process_friend(fr, resp, page, doc, count, rss_list) ==
    Processed(fr[1], fr[2], fr[3], Resolve(FirstOverride(rss_list, fr[1]), fr[2], resp, page), doc, count)

\* ---- inputs of discovery and site processing ----
SiteUrls == {HttpsPrefix \o BlogHost, HttpsPrefix \o BlogHost \o <<"/">>}

FeedLinkAbs == [type |-> AtomWord, href |-> HttpsPrefix \o DomainHost \o PathPart]
FeedLinkRel == [type |-> RssWord, href |-> PathPart]
FeedLinkNoHref == [type |-> RssWord, href |-> <<>>]
PlainLink == [type |-> <<"c", "s", "s">>, href |-> PathPart]

Pages == {
    [get |-> "neterr", status_code |-> 0, links |-> <<>>],
    [get |-> "ok", status_code |-> 404, links |-> <<FeedLinkAbs>>],
    [get |-> "ok", status_code |-> 200, links |-> <<>>],
    [get |-> "ok", status_code |-> 200, links |-> <<PlainLink>>],
    [get |-> "ok", status_code |-> 200, links |-> <<PlainLink, FeedLinkRel, FeedLinkAbs>>],
    [get |-> "ok", status_code |-> 200, links |-> <<FeedLinkAbs>>],
    [get |-> "ok", status_code |-> 200, links |-> <<FeedLinkNoHref>>] }

IdlePage == [get |-> "neterr", status_code |-> 0, links |-> <<>>]
IdleResp == [i \in 1..Len(possible_feeds) |-> "neterr"]
IdleDoc == [get |-> "neterr", bozo |-> FALSE, title |-> "", author |-> "", link |-> "", entries |-> <<>>]
IdleFriend == <<"", <<>>, "">>
IdleFeed == [feed_type |-> "none", feed_url |-> <<>>, reqs |-> <<>>]
IdleSiteResult == [name |-> "", status |-> "error", articles |-> <<>>]

IdleSan == san_pc = "idle" /\ link = <<>> /\ blog_url = <<>> /\ san_out = Returned(<<>>)
IdleNet == net_resp = IdleResp /\ net_page = IdlePage /\ net_doc = IdleDoc
IdleFd == fd_pc = "idle" /\ fd_out = IdleFeed
EmptyResult == [statistical_data |-> [friends_num |-> 0, active_num |-> 0, error_num |-> 0,
                                      article_num |-> 0, last_updated_time |-> "now"],
                article_data |-> <<>>]
NoOutput(k) == [kind |-> k, result |-> EmptyResult, error_friends_info |-> <<>>]
IdleSource == [fetch |-> "unreachable", shape |-> "dict", has_article_data |-> FALSE, article_data |-> <<>>]
IdleAg ==
    /\ ag_pc = "idle" /\ friends_data = [json |-> "unreachable", has_friends |-> FALSE, friends |-> <<>>]
    /\ futures = <<>> /\ drained = <<>>
    /\ total_friends = 0 /\ active_friends = 0 /\ error_friends = 0 /\ total_articles = 0
    /\ article_data = <<>> /\ error_friends_info = <<>>
    /\ ag_out = NoOutput("unset")
IdleSt ==
    /\ st_pc = "idle" /\ data = EmptyResult /\ before = EmptyResult /\ ops = <<>> /\ src = IdleSource
IdleSp == sp_pc = "idle" /\ specific_RSS = <<>> /\ sp_out = IdleSiteResult

(***************************************************************************)
(* check_feed applied to every assignment of responses                     *)
(***************************************************************************)
InitFeed ==
    /\ IdleSan /\ IdleSp /\ IdleAg /\ IdleSt
    /\ net_resp \in [1..Len(possible_feeds) -> Responses]
    /\ net_page \in Pages
    /\ net_doc = IdleDoc
    /\ friend \in {<<"A", u, "av">> : u \in SiteUrls}
    /\ fd_pc = "call"
    /\ fd_out = IdleFeed

Discover ==
    /\ fd_pc = "call"
    /\ fd_out' = check_feed(friend[2], net_resp, net_page)
    /\ fd_pc' = "returned"
    /\ UNCHANGED <<sanVars, netVars, spVars, agVars, stVars>>

NextFeed == Discover
SpecFeed == InitFeed /\ [][NextFeed]_vars

(***************************************************************************)
(* replace_non_domain applied to every link                                *)
(***************************************************************************)
InitSan ==
    /\ IdleNet /\ IdleFd /\ IdleSp /\ IdleAg /\ IdleSt /\ friend = IdleFriend
    /\ san_pc = "call"
    /\ link \in Links
    /\ blog_url \in BlogUrls
    /\ san_out = Returned(<<>>)

Sanitize ==
    /\ san_pc = "call"
    /\ san_out' = replace_non_domain(link, blog_url)
    /\ san_pc' = IF san_out'.exc = "none" THEN "returned" ELSE "raised"
    /\ UNCHANGED <<link, blog_url, netVars, fdVars, spVars, agVars, stVars>>

NextSan == Sanitize
SpecSan == InitSan /\ [][NextSan]_vars

\* ---- observation of a URL's host as a URL reader sees it (port and brackets removed) ----
HostPort(url) == Split(From(url, Find(url, SchemeSep) + 3), <<"/">>)[1]

PortStripped(hp) ==
    IF StartsWith(hp, <<"[">>) /\ Contains(hp, <<"]">>)
    THEN SubSeq(hp, 2, Find(hp, <<"]">>))
    ELSE LET ps == {i \in 1..Len(hp) : hp[i] = ":" /\ \A j \in (i+1)..Len(hp) : hp[j] \in Digits}
         IN  IF ps = {} \/ hp = Loopback6 THEN hp ELSE SubSeq(hp, 1, Min(ps) - 1)

GoodLink(url) ==
    /\ StartsWith(url, HttpsPrefix)
    /\ LET h == PortStripped(HostPort(url))
       IN  /\ h # <<>>
           /\ h # Localhost
           /\ h # Loopback6
           /\ ~IPv4Match(h)

\* C7: for every non-empty link and every base with a valid host, the sanitizer
\* returns normally an absolute https:// link whose host is not a bare IPv4
\* dotted-quad, not localhost, not ::1 and not empty.
C7_SanitizeSafe ==
    (san_pc # "call" /\ link # <<>>) => (san_pc = "returned" /\ GoodLink(san_out.ret))

(***************************************************************************)
(* process_friend applied to one site                                      *)
(***************************************************************************)
Count == 1

EntryDated == [has |-> {"published", "title", "link"}, published |-> "2024-03-11T14:08:32Z",
               updated |-> "", title |-> "t1", link |-> HttpsPrefix \o DomainHost \o PathPart]
EntryUpdated == [has |-> {"updated", "title", "link"}, published |-> "",
                 updated |-> "Mon, 10 Mar 2025 20:00:00 +0000", title |-> "t2",
                 link |-> HttpPrefix \o IpHost \o PathPart]
EntryUndated == [has |-> {"title"}, published |-> "", updated |-> "", title |-> "t3", link |-> <<>>]
EntryBadDate == [has |-> {"published", "title", "link"}, published |-> "???",
                 updated |-> "", title |-> "t4", link |-> DomainHost \o PathPart]
EntryRelative == [has |-> {"published", "title", "link"}, published |-> "2023-05-01",
                  updated |-> "", title |-> "t5", link |-> PathPart]
EntryBare == [has |-> {"link"}, published |-> "", updated |-> "", title |-> "",
              link |-> HttpsPrefix \o DomainHost]
Entries == {EntryDated, EntryUpdated, EntryUndated, EntryBadDate, EntryRelative, EntryBare}

MaxEntries == 2

EntryLists == UNION {[1..n -> Entries] : n \in 0..MaxEntries}

Docs == {[get |-> "neterr", bozo |-> FALSE, title |-> "", author |-> "", link |-> "", entries |-> <<>>],
         [get |-> "ok", bozo |-> TRUE, title |-> "", author |-> "", link |-> "", entries |-> <<>>]}
        \cup {[get |-> "ok", bozo |-> FALSE, title |-> "blog", author |-> "me", link |-> "home", entries |-> es] :
                es \in EntryLists}

\* responses to the 7 probes: all failing the same way, or one path answering with a feed
RespProfiles == {[i \in 1..Len(possible_feeds) |-> IF i = k THEN "feed200" ELSE f] :
                    k \in 0..Len(possible_feeds), f \in {"neterr", "non200", "plain200"}}

OverrideUrl == HttpsPrefix \o DomainHost \o <<"/", "f">>
OverrideLists == {<<>>,
                  <<[name |-> "A", url |-> OverrideUrl]>>,
                  <<[name |-> "B", url |-> OverrideUrl]>>,
                  <<[name |-> "A", url |-> <<>>]>>,
                  <<[name |-> "B", url |-> OverrideUrl], [name |-> "A", url |-> OverrideUrl \o <<"2">>],
                    [name |-> "A", url |-> OverrideUrl]>>}

InitSite ==
    /\ IdleSan /\ IdleFd /\ IdleAg /\ IdleSt
    /\ net_resp \in RespProfiles
    /\ net_page \in Pages
    /\ net_doc \in Docs
    /\ friend \in {<<"A", u, "av">> : u \in SiteUrls}
    /\ specific_RSS \in OverrideLists
    /\ sp_pc = "call"
    /\ sp_out = IdleSiteResult

Process ==
    /\ sp_pc = "call"
    /\ sp_out' = process_friend(friend, net_resp, net_page, net_doc, Count, specific_RSS)
    /\ sp_pc' = "returned"
    /\ UNCHANGED <<sanVars, netVars, fdVars, friend, specific_RSS, agVars, stVars>>

NextSite == Process
SpecSite == InitSite /\ [][NextSite]_vars

(***************************************************************************)
(* Aggregator: fetch_and_process_data                                      *)
(***************************************************************************)
max_workers == 10

MaxSites == 3

\* roster entries; has is the set of keys the JSON object holds
FriendA == [has |-> {"name", "url", "avatar"}, name |-> "A", url |-> HttpsPrefix \o BlogHost, avatar |-> "avA"]
FriendB == [has |-> {"name", "url", "avatar"}, name |-> "B", url |-> HttpsPrefix \o DomainHost, avatar |-> "avB"]
FriendNoAvatar == [has |-> {"name", "url"}, name |-> "C", url |-> HttpsPrefix \o DomainHost, avatar |-> ""]
FriendEntries == {FriendA, FriendB, FriendNoAvatar}

Rosters ==
    {[json |-> j, has_friends |-> FALSE, friends |-> <<>>] : j \in {"unreachable", "invalid", "ok"}}
    \cup {[json |-> "ok", has_friends |-> TRUE, friends |-> fs] :
             fs \in UNION {[1..n -> FriendEntries] : n \in 0..MaxSites}}

\* what a worker task can end with for a site: a value process_friend returns for
\* some answers of the network, or an exception raised inside the pipeline
FeedOf(url) == [get |-> "ok", bozo |-> FALSE, title |-> "blog", author |-> "me", link |-> "home",
                entries |-> <<[has |-> {"published", "title", "link"}, published |-> "2024-03-11T14:08:32Z",
                               updated |-> "", title |-> "post", link |-> url \o PathPart]>>]
TaskNets(url) ==
    {[resp |-> IdleResp, doc |-> IdleDoc],
     [resp |-> [i \in 1..Len(possible_feeds) |-> IF i = 1 THEN "feed200" ELSE "neterr"], doc |-> IdleDoc],
     [resp |-> [i \in 1..Len(possible_feeds) |-> IF i = 1 THEN "feed200" ELSE "neterr"], doc |-> FeedOf(url)]}
TaskResults(fr, count, rss_list) ==
    {Returned(process_friend(fr, n.resp, IdlePage, n.doc, count, rss_list)) : n \in TaskNets(fr[2])}
    \cup {Raised("Exception")}

TripleOf(f) == <<f.name, f.url, f.avatar>>

\* variant: the except branch forgets the error-list entry
Collect_DropRaised(acc, f, res) ==
    IF res.exc = "none"
    THEN IF res.ret.status = "active"
         THEN [acc EXCEPT !.active_friends = @ + 1,
                          !.article_data = @ \o res.ret.articles,
                          !.total_articles = @ + Len(res.ret.articles)]
         ELSE [acc EXCEPT !.error_friends = @ + 1,
                          !.error_friends_info = Append(@, TripleOf(f))]
    ELSE [acc EXCEPT !.error_friends = @ + 1]

\* variant: the except branch forgets to count the site
Collect_UncountedRaised(acc, f, res) ==
    IF res.exc = "none"
    THEN IF res.ret.status = "active"
         THEN [acc EXCEPT !.active_friends = @ + 1,
                          !.article_data = @ \o res.ret.articles,
                          !.total_articles = @ + Len(res.ret.articles)]
         ELSE [acc EXCEPT !.error_friends = @ + 1,
                          !.error_friends_info = Append(@, TripleOf(f))]
    ELSE [acc EXCEPT !.error_friends_info = Append(@, TripleOf(f))]

\* the body of the as_completed loop for one finished future of roster entry f
Collect(acc, f, res) ==
    IF res.exc = "none"
    THEN IF res.ret.status = "active"
         THEN [acc EXCEPT !.active_friends = @ + 1,
                          !.article_data = @ \o res.ret.articles,
                          !.total_articles = @ + Len(res.ret.articles)]
         ELSE [acc EXCEPT !.error_friends = @ + 1,
                          !.error_friends_info = Append(@, TripleOf(f))]
    ELSE [acc EXCEPT !.error_friends = @ + 1,
                     !.error_friends_info = Append(@, TripleOf(f))]

Acc == [active_friends |-> active_friends, error_friends |-> error_friends,
        total_articles |-> total_articles, article_data |-> article_data,
        error_friends_info |-> error_friends_info]

InitAg ==
    /\ IdleSan /\ IdleNet /\ IdleFd /\ IdleSp /\ IdleSt /\ friend = IdleFriend
    /\ ag_pc = "fetch"
    /\ friends_data \in Rosters
    /\ futures = <<>> /\ drained = <<>>
    /\ total_friends = 0 /\ active_friends = 0 /\ error_friends = 0 /\ total_articles = 0
    /\ article_data = <<>> /\ error_friends_info = <<>>
    /\ ag_out = NoOutput("unset")

\* session.get(json_url) and response.json(), then len(friends_data['friends'])
FetchRoster ==
    /\ ag_pc = "fetch"
    /\ IF friends_data.json # "ok"
       THEN ag_pc' = "returned" /\ ag_out' = NoOutput("None") /\ UNCHANGED total_friends
       ELSE IF ~friends_data.has_friends
       THEN ag_pc' = "raised" /\ ag_out' = NoOutput("KeyError") /\ UNCHANGED total_friends
       ELSE ag_pc' = "submit" /\ total_friends' = Len(friends_data.friends) /\ UNCHANGED ag_out
    /\ UNCHANGED <<sanVars, netVars, fdVars, spVars, stVars, friends_data, futures, drained,
                   active_friends, error_friends, total_articles, article_data, error_friends_info>>

\* the dict comprehension that submits one task per roster entry
Submit ==
    /\ ag_pc = "submit"
    /\ IF \E i \in 1..Len(friends_data.friends) : friends_data.friends[i].has # {"name", "url", "avatar"}
       THEN ag_pc' = "raised" /\ ag_out' = NoOutput("KeyError") /\ UNCHANGED futures
       ELSE /\ ag_pc' = "drain"
            /\ futures' = [i \in 1..Len(friends_data.friends) |-> [state |-> "queued", res |-> Raised("unset")]]
            /\ UNCHANGED ag_out
    /\ UNCHANGED <<sanVars, netVars, fdVars, spVars, stVars, friends_data, drained, counters>>

\* a pool thread takes the oldest queued task
TaskStart(i) ==
    /\ ag_pc = "drain"
    /\ futures[i].state = "queued"
    /\ \A j \in 1..(i-1) : futures[j].state # "queued"
    /\ Cardinality({j \in 1..Len(futures) : futures[j].state = "running"}) < max_workers
    /\ futures' = [futures EXCEPT ![i].state = "running"]
    /\ UNCHANGED <<sanVars, netVars, fdVars, spVars, stVars, ag_pc, friends_data, drained, counters, ag_out>>

\* process_friend ends in the worker thread: the future holds its value or its exception
TaskFinish(i) ==
    /\ ag_pc = "drain"
    /\ futures[i].state = "running"
    /\ \E r \in TaskResults(TripleOf(friends_data.friends[i]), Count, <<>>) :
          futures' = [futures EXCEPT ![i] = [state |-> "done", res |-> r]]
    /\ UNCHANGED <<sanVars, netVars, fdVars, spVars, stVars, ag_pc, friends_data, drained, counters, ag_out>>

\* one iteration of `for future in as_completed(future_to_friend)`
Drain(i) ==
    /\ ag_pc = "drain"
    /\ futures[i].state = "done"
    /\ LET acc == Collect(Acc, friends_data.friends[i], futures[i].res)
       IN  /\ active_friends' = acc.active_friends
           /\ error_friends' = acc.error_friends
           /\ total_articles' = acc.total_articles
           /\ article_data' = acc.article_data
           /\ error_friends_info' = acc.error_friends_info
    /\ futures' = [futures EXCEPT ![i].state = "drained"]
    /\ drained' = Append(drained, i)
    /\ UNCHANGED <<sanVars, netVars, fdVars, spVars, stVars, ag_pc, friends_data, total_friends, ag_out>>

\* the loop is over: build the result and return it with the error list
ReturnResult ==
    /\ ag_pc = "drain"
    /\ \A i \in 1..Len(futures) : futures[i].state = "drained"
    /\ ag_out' = [kind |-> "tuple",
                  result |-> [statistical_data |-> [friends_num |-> total_friends,
                                                      active_num |-> active_friends,
                                                      error_num |-> error_friends,
                                                      article_num |-> total_articles,
                                                      last_updated_time |-> "now"],
                                article_data |-> article_data],
                  error_friends_info |-> error_friends_info]
    /\ ag_pc' = "returned"
    /\ UNCHANGED <<sanVars, netVars, fdVars, spVars, stVars, friends_data, futures, drained, counters>>

NextAg ==
    \/ FetchRoster
    \/ Submit
    \/ \E i \in 1..Len(futures) : TaskStart(i)
    \/ \E i \in 1..Len(futures) : TaskFinish(i)
    \/ \E i \in 1..Len(futures) : Drain(i)
    \/ ReturnResult
Spec == InitAg /\ [][NextAg]_vars

(***************************************************************************)
(* Merge/Dedup stage and Working-Set Limiter                               *)
(***************************************************************************)
DefaultCreated == "2024-01-01 00:00"

\* variant: descending order obtained by reversing an ascending sort, which
\* also reverses the order of articles with equal timestamps
Reverse(s) == [i \in 1..Len(s) |-> s[Len(s) + 1 - i]]
NegCreatedKey(a) == 0 - strptime(a.created)
sort_articles_by_time_ReverseTies(d) ==
    LET defaulted == [i \in 1..Len(d.article_data) |->
                        IF d.article_data[i].created = ""
                        THEN [d.article_data[i] EXCEPT !.created = DefaultCreated]
                        ELSE d.article_data[i]]
    IN  IF \E i \in 1..Len(defaulted) : defaulted[i].created \notin Parseable
        THEN Raised("ValueError")
        ELSE Returned([d EXCEPT !.article_data = Reverse(SortedDesc(defaulted, [i \in 1..Len(defaulted) |-> NegCreatedKey(defaulted[i])]))])

CreatedKey(a) == strptime(a.created)

\* the result dict, or the ValueError strptime raises on a timestamp it cannot read
sort_articles_by_time(d) ==
    LET defaulted == [i \in 1..Len(d.article_data) |->
                        IF d.article_data[i].created = ""
                        THEN [d.article_data[i] EXCEPT !.created = DefaultCreated]
                        ELSE d.article_data[i]]
    IN  IF \E i \in 1..Len(defaulted) : defaulted[i].created \notin Parseable
        THEN Raised("ValueError")
        ELSE Returned([d EXCEPT !.article_data = SortedDesc(defaulted, [i \in 1..Len(defaulted) |-> CreatedKey(defaulted[i])])])

max_articles == 150

deal_with_large_data(result) ==
    LET sorted == sort_articles_by_time(result)
    IN  IF sorted.exc # "none" THEN sorted
        ELSE LET arts == sorted.ret.article_data
             IN  IF Len(arts) > max_articles
                 THEN LET top_authors == {arts[i].author : i \in 1..max_articles}
                          filtered_articles ==
                              SubSeq(arts, 1, max_articles)
                              \o SelectSeq(SubSeq(arts, max_articles + 1, Len(arts)),
                                           LAMBDA a : a.author \in top_authors)
                      IN  Returned([sorted.ret EXCEPT !.article_data = filtered_articles,
                                                      !.statistical_data.article_num = Len(filtered_articles)])
                 ELSE sorted

\* variant: the entry kept for a link is the first one seen
DedupByLink_KeepFirst(arts) ==
    LET firsts == SelectSeq([i \in 1..Len(arts) |-> i],
                            LAMBDA i : \A j \in 1..(i - 1) : arts[j].link # arts[i].link)
    IN  [k \in 1..Len(firsts) |-> arts[firsts[k]]]

\* list({v['link']: v for v in arts}.values()): keys in order of first
\* appearance, each holding the last entry seen with that link
DedupByLink(arts) ==
    LET firsts == SelectSeq([i \in 1..Len(arts) |-> i],
                            LAMBDA i : \A j \in 1..(i - 1) : arts[j].link # arts[i].link)
    IN  [k \in 1..Len(firsts) |->
            arts[Max({i \in 1..Len(arts) : arts[i].link = arts[firsts[k]].link})]]

marge_data_from_json_url(d, s) ==
    IF s.fetch # "ok" THEN Returned(d)
    ELSE IF s.shape # "dict" THEN Raised("TypeError")
    ELSE IF ~s.has_article_data THEN Returned(d)
    ELSE LET all == d.article_data \o s.article_data
         IN  IF \E i \in 1..Len(all) : "link" \notin DOMAIN all[i]
             THEN Raised("KeyError")
             ELSE Returned([d EXCEPT !.article_data = DedupByLink(all)])

\* ---- inputs of the stages ----
MaxSmall == 2
MaxPost == 2
FillerLen == max_articles - 1

Art(t, c, l, a) == [title |-> t, created |-> c, link |-> l, author |-> a, avatar |-> "av" \o a]

Filler(n) == [i \in 1..n |-> Art("f" \o ToString(i), "2024-03-11 22:08", "f" \o ToString(i), "F")]

\* titles name the position an article had in the list it came from
Titled(arts, pfx) == [i \in 1..Len(arts) |-> [arts[i] EXCEPT !.title = pfx \o ToString(i)]]

SmallArticles == {Art("", c, l, a) : c \in {"", "2025-03-11 04:00"}, l \in {"", "x"}, a \in {"A", "B"}}
EdgeArticles == {Art("", "", "", "A"), Art("", "2023-05-01 08:00", "", "B"), Art("", "2025-03-11 04:00", "", "B")}
LinkedByTitle(arts) == [i \in 1..Len(arts) |-> [arts[i] EXCEPT !.link = arts[i].title]]

LocalLists ==
    {Titled(l, "a") : l \in UNION {[1..n -> SmallArticles] : n \in 0..MaxSmall}}
    \cup {LinkedByTitle(Titled(pre \o Filler(FillerLen) \o post, "a")) :
             pre \in {<<>>} \cup {<<e>> : e \in EdgeArticles},
             post \in UNION {[1..n -> EdgeArticles] : n \in 0..MaxPost}}

ResultOf(arts) == [statistical_data |-> [friends_num |-> 3, active_num |-> 2, error_num |-> 1,
                                        article_num |-> Len(arts), last_updated_time |-> "now"],
                   article_data |-> arts]

OtherWith(arts) == [fetch |-> "ok", shape |-> "dict", has_article_data |-> TRUE, article_data |-> arts]
MergeSources == {
    [fetch |-> "unreachable", shape |-> "dict", has_article_data |-> FALSE, article_data |-> <<>>],
    [fetch |-> "ok", shape |-> "number", has_article_data |-> FALSE, article_data |-> <<>>],
    [fetch |-> "ok", shape |-> "dict", has_article_data |-> FALSE, article_data |-> <<>>],
    OtherWith(Titled(<<Art("", "2025-03-11 04:00", "x", "B"), Art("", "", "z", "C"),
                       Art("", "2023-05-01 08:00", "x", "A"), Art("", "", "", "C")>>, "o")),
    OtherWith(Titled(<<Art("", "yesterday", "w", "A")>>, "o")),
    OtherWith(<<[title |-> "o1", created |-> "2025-03-11 04:00", author |-> "A", avatar |-> "avA"]>>) }

InitStages ==
    /\ IdleSan /\ IdleNet /\ IdleFd /\ IdleSp /\ IdleAg /\ friend = IdleFriend
    /\ st_pc = "ready"
    /\ data \in {ResultOf(l) : l \in LocalLists}
    /\ before = data
    /\ ops = <<>>
    /\ src = IdleSource

Apply(op, out) ==
    /\ before' = data
    /\ ops' = <<op>> \o SubSeq(ops, 1, IF ops = <<>> THEN 0 ELSE 1)
    /\ IF out.exc = "none"
       THEN data' = out.ret /\ st_pc' = "ready"
       ELSE data' = data /\ st_pc' = "raised"

Merge ==
    /\ st_pc = "ready"
    /\ \E s \in MergeSources :
          /\ src' = s
          /\ Apply("merge", marge_data_from_json_url(data, s))
    /\ UNCHANGED <<sanVars, netVars, fdVars, spVars, agVars>>

Limit ==
    /\ st_pc = "ready"
    /\ Apply("limit", deal_with_large_data(data))
    /\ UNCHANGED <<sanVars, netVars, fdVars, spVars, agVars, src>>

NextStages == Merge \/ Limit
SpecStages == InitStages /\ [][NextStages]_vars

\* C8: discovery returns the kind and URL of the first fixed path answering 200 with
\* a feed marker and requests no later path; a network error on a probe only moves
\* on; kind none (with the base URL) iff no probe succeeds and autodiscovery on the
\* base page finds no alternate feed link.
FixedOrder == <<
    <<"atom",  <<"/", "a", "t", "o", "m", ".", "x", "m", "l">>>>,
    <<"rss",   <<"/", "r", "s", "s", ".", "x", "m", "l">>>>,
    <<"rss2",  <<"/", "r", "s", "s", "2", ".", "x", "m", "l">>>>,
    <<"feed",  <<"/", "f", "e", "e", "d">>>>,
    <<"feed2", <<"/", "f", "e", "e", "d", ".", "x", "m", "l">>>>,
    <<"feed3", <<"/", "f", "e", "e", "d", "/">>>>,
    <<"index", <<"/", "i", "n", "d", "e", "x", ".", "x", "m", "l">>>> >>
FirstHit == {i \in 1..7 : net_resp[i] = "feed200" /\ \A j \in 1..(i-1) : net_resp[j] # "feed200"}
AltFeedLinkOnPage ==
    /\ net_page.get = "ok" /\ net_page.status_code = 200
    /\ \E k \in 1..Len(net_page.links) :
          Contains(net_page.links[k].type, RssWord) \/ Contains(net_page.links[k].type, AtomWord)
PathUrl(i) == RStripSlash(friend[2]) \o FixedOrder[i][2]

C8_FirstProbeWins ==
    fd_pc = "returned" =>
      /\ \A i \in FirstHit :
            /\ fd_out.feed_type = FixedOrder[i][1]
            /\ fd_out.feed_url = PathUrl(i)
            /\ fd_out.reqs = [j \in 1..i |-> PathUrl(j)]
      /\ (FirstHit = {}) => SubSeq(fd_out.reqs, 1, 7) = [j \in 1..7 |-> PathUrl(j)]
      /\ (fd_out.feed_type = "none") <=> (FirstHit = {} /\ ~AltFeedLinkOnPage)
      /\ (fd_out.feed_type = "none") => fd_out.feed_url = friend[2]

\* a network error on an early path, a later path found
C8_Witness ==
    /\ fd_pc = "returned"
    /\ net_resp[1] = "neterr" /\ net_resp[2] = "non200" /\ net_resp[3] = "feed200" /\ net_resp[5] = "feed200"
    /\ fd_out.feed_type = "rss2"
    /\ Len(fd_out.reqs) = 3
\* C1: status is active iff a feed URL was resolved (override or discovery) and the
\* feed was fetched and parsed without fatal error (zero articles still active);
\* otherwise, including a failed or malformed feed on a resolved URL, status is
\* error with no articles.
FeedResolved ==
    \/ \E k \in 1..Len(specific_RSS) : specific_RSS[k].name = friend[1] /\ specific_RSS[k].url # <<>>
       /\ \A j \in 1..(k-1) : specific_RSS[j].name # friend[1]
    \/ /\ \A k \in 1..Len(specific_RSS) : specific_RSS[k].name = friend[1] =>
             \E j \in 1..k : specific_RSS[j].name = friend[1] /\ specific_RSS[j].url = <<>>
       /\ (\E i \in 1..7 : net_resp[i] = "feed200") \/ AltFeedLinkOnPage
FeedParsedWithoutFatalError ==
    /\ net_doc.get = "ok"
    /\ ~net_doc.bozo
    /\ ParseBody(net_doc, Count, friend[2]).exc = "none"

C1_StatusIffParsed ==
    sp_pc = "returned" =>
      /\ (sp_out.status = "active") <=> (FeedResolved /\ FeedParsedWithoutFatalError)
      /\ (sp_out.status # "active") => (sp_out.status = "error" /\ sp_out.articles = <<>>)

\* C2: the outcome recorded for a site depends only on that site's own task result:
\* the articles are those of the active tasks and the error list holds the triples
\* of the failed or raising tasks, each in drain order, each site once; a raising
\* task never aborts the run.
TaskActive(i) == futures[i].res.exc = "none" /\ futures[i].res.ret.status = "active"
RECURSIVE OwnArticles(_)
OwnArticles(order) ==
    IF order = <<>> THEN <<>>
    ELSE (IF TaskActive(Head(order)) THEN futures[Head(order)].res.ret.articles ELSE <<>>)
         \o OwnArticles(Tail(order))
RECURSIVE OwnErrors(_)
OwnErrors(order) ==
    IF order = <<>> THEN <<>>
    ELSE (IF TaskActive(Head(order)) THEN <<>>
          ELSE << <<friends_data.friends[Head(order)].name, friends_data.friends[Head(order)].url,
                    friends_data.friends[Head(order)].avatar>> >>)
         \o OwnErrors(Tail(order))

C2_Isolation ==
    /\ ag_pc \in {"drain", "returned"} =>
         /\ article_data = OwnArticles(drained)
         /\ error_friends_info = OwnErrors(drained)
         /\ \A k1 \in 1..Len(drained) : \A k2 \in 1..Len(drained) : drained[k1] = drained[k2] => k1 = k2
    /\ (ag_pc = "returned" /\ ag_out.kind = "tuple") =>
         /\ {drained[k] : k \in 1..Len(drained)} = 1..Len(friends_data.friends)
         /\ ag_out.result.article_data = OwnArticles(drained)
         /\ ag_out.error_friends_info = OwnErrors(drained)
    /\ ag_pc = "raised" => futures = <<>>

\* a task raised, a later-submitted task was drained before it and its article is in the result
C2_Witness ==
    /\ ag_pc = "returned" /\ ag_out.kind = "tuple"
    /\ Len(drained) = 3 /\ drained[1] = 3 /\ drained[3] = 1
    /\ futures[1].res.exc # "none"
    /\ TaskActive(3) /\ Len(futures[3].res.ret.articles) = 1
    /\ friends_data.friends[1].name # friends_data.friends[3].name
    /\ Len(ag_out.result.article_data) = 1 /\ Len(ag_out.error_friends_info) >= 1

\* C3: when aggregate returns a result, activeSites + errorSites = totalSites, every
\* roster entry (repeated ones too) counted exactly once.
C3_CountsAddUp ==
    (ag_pc = "returned" /\ ag_out.kind = "tuple") =>
      /\ ag_out.result.statistical_data.active_num + ag_out.result.statistical_data.error_num
           = ag_out.result.statistical_data.friends_num
      /\ ag_out.result.statistical_data.friends_num = Len(friends_data.friends)
      /\ ag_out.result.statistical_data.active_num
           = Cardinality({i \in 1..Len(futures) : TaskActive(i)})

\* a roster with a repeated entry; one task raised, one returned error, one was active
C3_Witness ==
    /\ ag_pc = "returned" /\ ag_out.kind = "tuple"
    /\ Len(friends_data.friends) = 3
    /\ friends_data.friends[1] = friends_data.friends[2]
    /\ \E i \in 1..3 : futures[i].res.exc # "none"
    /\ \E i \in 1..3 : futures[i].res.exc = "none" /\ futures[i].res.ret.status = "error"
    /\ \E i \in 1..3 : TaskActive(i)
    /\ drained # <<1, 2, 3>>

\* C6: an unfetchable or unparseable roster gives no result; no failure below
\* that level reaches the caller as an exception.
C6_NothingSurfaces ==
    /\ (ag_pc = "returned" /\ friends_data.json # "ok") => ag_out.kind = "None"
    /\ ag_pc # "raised"

\* C4: after a merge with a fetched dataset, no two articles share a link, the size
\* is the number of distinct links of both lists, and a link present in both keeps
\* the record of the merged-in dataset.
MergedIn == ops # <<>> /\ ops[1] = "merge" /\ st_pc = "ready"
            /\ src.fetch = "ok" /\ src.shape = "dict" /\ src.has_article_data
LinksOf(arts) == {arts[i].link : i \in 1..Len(arts)}

C4_MergeDedup ==
    MergedIn =>
      LET loc == before.article_data
          oth == src.article_data
          out == data.article_data
      IN  /\ \A i \in 1..Len(out) : \A j \in 1..Len(out) : out[i].link = out[j].link => i = j
          /\ Len(out) = Cardinality(LinksOf(loc) \cup LinksOf(oth))
          /\ \A k \in 1..Len(out) :
                (out[k].link \in LinksOf(loc) /\ out[k].link \in LinksOf(oth)) =>
                   \E j \in 1..Len(oth) : oth[j] = out[k]

\* the local list and the merged-in list share the link "x", with different records
C4_Witness ==
    /\ MergedIn
    /\ "x" \in LinksOf(before.article_data) /\ "x" \in LinksOf(src.article_data)
    /\ Len(data.article_data) < Len(before.article_data) + Len(src.article_data)
    /\ \E k \in 1..Len(data.article_data) :
          data.article_data[k].link = "x" /\ data.article_data[k].title = "o3"

\* C5: limiting more than cap articles: the first cap articles are the cap most
\* recent by createdAt (descending, ties in original order, missing timestamps
\* last); every later article has an author of the head; every input article
\* whose author is in the head is kept.
Cap == 150
ClaimedKey(a) == IF a.created = "" THEN 0 ELSE strptime(a.created)
PosIn(arts, t) == CHOOSE i \in 1..Len(arts) : arts[i].title = t
Limited == ops # <<>> /\ ops[1] = "limit" /\ st_pc = "ready" /\ Len(before.article_data) > Cap

C5_HeadMostRecent ==
    Limited =>
      LET inp == before.article_data
          out == data.article_data
          Earlier(i, j) == \/ ClaimedKey(inp[i]) > ClaimedKey(inp[j])
                           \/ (ClaimedKey(inp[i]) = ClaimedKey(inp[j]) /\ i < j)
          headPos == [k \in 1..Cap |-> PosIn(inp, out[k].title)]
          headAuthors == {out[k].author : k \in 1..Cap}
      IN  /\ Len(out) >= Cap
          /\ \A k \in 1..(Cap - 1) : Earlier(headPos[k], headPos[k + 1])
          /\ \A i \in 1..Len(inp) :
                (\A k \in 1..Cap : headPos[k] # i) => Earlier(headPos[Cap], i)
          /\ \A k \in (Cap + 1)..Len(out) : out[k].author \in headAuthors
          /\ \A i \in 1..Len(inp) :
                inp[i].author \in headAuthors => \E k \in 1..Len(out) : out[k].title = inp[i].title

\* C9: limiting a limited result changes neither the article sequence nor the
\* article-count statistic.
C9_LimitIdempotent ==
    (Len(ops) = 2 /\ ops[1] = "limit" /\ ops[2] = "limit" /\ st_pc = "ready") =>
      /\ data.article_data = before.article_data
      /\ data.statistical_data.article_num = before.statistical_data.article_num

\* limited twice, still above the cap, holding an article whose missing timestamp was defaulted
C9_Witness ==
    /\ Len(ops) = 2 /\ ops[1] = "limit" /\ ops[2] = "limit" /\ st_pc = "ready"
    /\ Len(data.article_data) > Cap
    /\ \E i \in 1..Len(data.article_data) :
          data.article_data[i].created = "2024-01-01 00:00" /\ data.article_data[i].author = "A"

\* C10: the article-count statistic equals the length of the article list after any
\* sequence of merges and limits applied to an aggregate result.
C10_CountMatchesList ==
    st_pc = "ready" => data.statistical_data.article_num = Len(data.article_data)
====
